---- MODULE Spec2Model ----
(***************************************************************************)
(* Model of the retrieval subsystem of the Multi-Agent-System repository   *)
(* (src/rag_tool.py): RAGSystem construction, retrieve_context and the two *)
(* tool functions that render a retrieval result as text; and of the       *)
(* application built on it (src/app.py, src/planner.py,                    *)
(* src/reflective.py): routing, dispatch and the reflection schedule.      *)
(*                                                                         *)
(* Python strings are modelled as sequences of tokens: a literal fragment  *)
(* of a template is one token, and every character of document text is a   *)
(* one-character token, so slicing, replacing and concatenating are the    *)
(* sequence operations the code performs on characters.                    *)
(* Relevance scores are integers counted in 1/10000.                       *)
(*                                                                         *)
(* The collection discrete_math_kb lives in ./chroma_db and outlives the   *)
(* process: Chroma.from_documents adds the new chunks to whatever the      *)
(* collection already holds, so the model starts from a collection that is *)
(* empty or holds entries of an earlier run or of another writer.          *)
(* The vector store is a library: its search is modelled by its contract   *)
(* (the k most relevant entries, most relevant first, or a raised fault).  *)
(***************************************************************************)
EXTENDS Integers, Sequences, FiniteSets, TLC

VARIABLES
    phase,          \* "import" before rag_system = RAGSystem() ran, "ready" after,
                    \* "crashed" when the constructor raised
    collection,     \* entries of the persisted collection discrete_math_kb in ./chroma_db
    db_initialized, \* RAGSystem.db_initialized
    vector_store,   \* RAGSystem.vector_store: None or the Chroma handle
    embeddings,     \* RAGSystem.embeddings: None or the embedding model
    init_steps,     \* the steps initialize_rag performed, in order
    init_outcome,   \* how initialize_rag ended
    init_documents, \* the pages initialize_rag handed to the vector store build
                    \* (empty when it did not get that far)
    call,           \* the last call into the subsystem and how it ended
    result,         \* the dictionary the last call got from retrieve_context
    response,       \* the text the last call returned, when it was a tool call
    probe,          \* history: the first retrieval of a run, to compare later ones with
    query_count,              \* st.session_state.query_count
    last_reflection_date,     \* st.session_state.last_reflection_date: None or a time
    reflection_interval_days, \* st.session_state.reflection_interval_days
    force_reflection,         \* st.session_state.force_reflection (absent reads as False)
    now,                      \* the clock datetime.now() reads, in half days
    flow                      \* what the last run of the Submit Query handler did

\* the state of the knowledge base, which only construction writes
index == <<phase, collection, db_initialized, vector_store, embeddings,
           init_steps, init_outcome, init_documents>>

\* the session state of the application and its clock
session == <<query_count, last_reflection_date, reflection_interval_days,
             force_reflection, now, flow>>

vars == <<index, call, result, response, probe, session>>

-----------------------------------------------------------------------------
(* Bounds of the model *)

MaxPages == 1       \* pages of the source document (the long page apart)
MaxPersisted == 1   \* entries already in the persisted collection at start-up
MaxK == 2           \* k of a direct retrieve_context call ranges over 0..MaxK

(* Constants of the program *)

ChunkSize == 800
ChunkOverlap == 150
PreviewLen == 150
ToolK == 4
DefaultK == 4

-----------------------------------------------------------------------------
(* Python values *)

None == "None"
Chroma == "Chroma"
EmbeddingModel == "all-MiniLM-L6-v2"

NL == "\n"
SP == " "

PyInt(n) == [int |-> n]
PyStr(s) == [str |-> s]
IsStr(v) == "str" \in DOMAIN v

\* str(v) of a Python int or str
Str(v) == IF IsStr(v) THEN v.str ELSE <<ToString(v.int)>>

\* dict.get(key, default)
MetaGet(metadata, key, default) ==
    IF key \in DOMAIN metadata THEN metadata[key] ELSE default

PdfPath == <<"data", "/", "DiscreteMath.pdf">>

RECURSIVE LastSlash(_, _)
LastSlash(path, i) ==
    IF i = 0 THEN 0
    ELSE IF path[i] = "/" THEN i
    ELSE LastSlash(path, i - 1)

\* os.path.basename: what follows the last "/"
Basename(path) == SubSeq(path, LastSlash(path, Len(path)) + 1, Len(path))

\* s[:n]
Prefix(s, n) == SubSeq(s, 1, IF Len(s) < n THEN Len(s) ELSE n)

\* s.replace('\n', ' ')
ReplaceNewlines(s) == [i \in 1..Len(s) |-> IF s[i] = NL THEN SP ELSE s[i]]

RECURSIVE Join(_, _)
\* sep.join(parts)
Join(sep, parts) ==
    IF Len(parts) = 0 THEN <<>>
    ELSE IF Len(parts) = 1 THEN parts[1]
    ELSE parts[1] \o sep \o Join(sep, Tail(parts))

RECURSIVE Flatten(_)
Flatten(parts) ==
    IF Len(parts) = 0 THEN <<>> ELSE parts[1] \o Flatten(Tail(parts))

Abs(n) == IF n < 0 THEN -n ELSE n

\* round to the nearest multiple of step, ties to even
RoundHalfEven(n, step) ==
    LET q == n \div step
        r == n % step
    IN  IF 2 * r < step THEN q
        ELSE IF 2 * r > step THEN q + 1
        ELSE IF q % 2 = 0 THEN q ELSE q + 1

Pad(n, width) ==
    IF width = 3 /\ n < 10 THEN "00" \o ToString(n)
    ELSE IF (width = 3 /\ n < 100) \/ (width = 2 /\ n < 10) THEN "0" \o ToString(n)
    ELSE ToString(n)

\* f"{score:.2f}"
Fixed2(score) ==
    LET h == RoundHalfEven(score, 100)
    IN  (IF score < 0 THEN "-" ELSE "") \o ToString(Abs(h) \div 100) \o "."
            \o Pad(Abs(h) % 100, 2)

\* round(score, 3), counted in 1/1000
Round3(score) == RoundHalfEven(score, 10)

\* str() of a float that holds a multiple of 1/1000
Repr3(t) ==
    LET f == Abs(t) % 1000
        frac == IF f % 100 = 0 THEN ToString(f \div 100)
                ELSE IF f % 10 = 0 THEN Pad(f \div 10, 2)
                ELSE Pad(f, 3)
    IN  (IF t < 0 THEN "-" ELSE "") \o ToString(Abs(t) \div 1000) \o "." \o frac

-----------------------------------------------------------------------------
(* The document and the persisted collection *)

TextEmpty == <<>>
TextShort == <<"S", "e", "t", NL, "s">>
TextMid == [i \in 1..160 |-> IF i \in {4, 152} THEN NL ELSE "x"]
TextLong == [i \in 1..810 |-> "y"]

PageTexts == {TextEmpty, TextShort, TextMid}

RECURSIVE SeqsUpTo(_, _)
SeqsUpTo(S, n) ==
    IF n = 0 THEN {<<>>}
    ELSE LET shorter == SeqsUpTo(S, n - 1)
         IN  shorter \cup {Append(s, x) : s \in {t \in shorter : Len(t) = n - 1}, x \in S}

\* what PyPDFLoader.load can return: one text per page
Documents == SeqsUpTo(PageTexts, MaxPages) \cup {<<TextLong>>}

\* an entry left in the collection by an earlier run of this program
EarlierRunEntry ==
    [page_content |-> TextShort,
     metadata |-> [page |-> PyInt(1), source |-> PyStr(PdfPath)]]

\* an entry written to the same collection by another writer, whose 'source'
\* metadata is a number
NumericSourceEntry ==
    [page_content |-> <<"w">>,
     metadata |-> [page |-> PyInt(7), source |-> PyInt(3)]]

PersistedEntries == {EarlierRunEntry, NumericSourceEntry}

Queries == {"sets", "graphs"}

FaultTexts == {<<"disk I/O error">>}

-----------------------------------------------------------------------------
(* RecursiveCharacterTextSplitter(chunk_size=800, chunk_overlap=150).           *)
(* The page texts of the model hold no leading or trailing blanks, and a text   *)
(* longer than the chunk size holds no separator, so the splitter falls back to *)
(* character level: windows of chunk_size that overlap by chunk_overlap.        *)

RECURSIVE Windows(_, _)
Windows(text, start) ==
    LET end == IF start + ChunkSize - 1 < Len(text) THEN start + ChunkSize - 1 ELSE Len(text)
    IN  <<SubSeq(text, start, end)>>
            \o (IF end = Len(text) THEN <<>> ELSE Windows(text, end - ChunkOverlap + 1))

SplitText(text) ==
    IF Len(text) = 0 THEN <<>>
    ELSE IF Len(text) <= ChunkSize THEN <<text>>
    ELSE Windows(text, 1)

\* the chunks of page i (PyPDFLoader numbers pages from 0), with their provenance
PageChunks(documents, i) ==
    LET pieces == SplitText(documents[i])
    IN  [j \in 1..Len(pieces) |->
            [page_content |-> pieces[j],
             metadata |-> [page |-> PyInt(i - 1), source |-> PyStr(PdfPath)]]]

split_documents(documents) ==
    Flatten([i \in 1..Len(documents) |-> PageChunks(documents, i)])

-----------------------------------------------------------------------------
(* RAGSystem.__init__ and initialize_rag *)

InitState(ok, vs, emb, coll, steps, outcome) ==
    [db_initialized |-> ok, vector_store |-> vs, embeddings |-> emb,
     collection |-> coll, steps |-> steps, outcome |-> outcome, raised |-> FALSE]

\* the return of the path taken when the PDF is missing
MissingReturn(coll) ==
    InitState(FALSE, None, None, coll, <<"exists">>, "missing")

\* initialize_rag without its except clause
InitExceptReraise(emb, coll, steps, outcome) ==
    [InitState(FALSE, None, emb, coll, steps, outcome) EXCEPT !.raised = TRUE]

\* the except clause of initialize_rag; emb is self.embeddings as the failed
\* step left it
InitExcept(emb, coll, steps, outcome) ==
    InitState(FALSE, None, emb, coll, steps, outcome)

\* initialize_rag without the check that the splitter produced chunks
initialize_rag_unchecked(pdf_exists, load_ok, documents, embed_ok, build_ok, coll) ==
    IF ~pdf_exists THEN MissingReturn(coll)
    ELSE IF ~load_ok
    THEN InitExcept(None, coll, <<"exists", "load">>, "load_raised")
    ELSE IF Len(documents) = 0
    THEN InitState(FALSE, None, None, coll, <<"exists", "load">>, "no_pages")
    ELSE IF ~embed_ok
    THEN InitExcept(None, coll,
                    <<"exists", "load", "split", "embed">>, "embed_raised")
    ELSE IF ~build_ok
    THEN InitExcept(EmbeddingModel, coll,
                    <<"exists", "load", "split", "embed", "build">>,
                    "build_raised")
    ELSE InitState(TRUE, Chroma, EmbeddingModel, coll \o split_documents(documents),
                   <<"exists", "load", "split", "embed", "build">>, "built")

\* pdf_exists: os.path.exists(pdf_path); load_ok, embed_ok, build_ok: whether
\* loader.load, the embedding-model load and Chroma.from_documents return
\* rather than raise; coll: the collection as found on disk.
initialize_rag(pdf_exists, load_ok, documents, embed_ok, build_ok, coll) ==
    IF ~pdf_exists THEN MissingReturn(coll)
    ELSE IF ~load_ok
    THEN InitExcept(None, coll, <<"exists", "load">>, "load_raised")
    ELSE IF Len(documents) = 0
    THEN InitState(FALSE, None, None, coll, <<"exists", "load">>, "no_pages")
    ELSE LET chunks == split_documents(documents)
         IN  IF Len(chunks) = 0
             THEN InitState(FALSE, None, None, coll,
                            <<"exists", "load", "split">>, "no_chunks")
             ELSE IF ~embed_ok
             THEN InitExcept(None, coll,
                             <<"exists", "load", "split", "embed">>, "embed_raised")
             ELSE IF ~build_ok
             THEN InitExcept(EmbeddingModel, coll,
                             <<"exists", "load", "split", "embed", "build">>,
                             "build_raised")
             ELSE InitState(TRUE, Chroma, EmbeddingModel, coll \o chunks,
                            <<"exists", "load", "split", "embed", "build">>, "built")

-----------------------------------------------------------------------------
(* The vector store's search *)

\* similarity of the query's embedding and the chunk's, in 1/10000: a fixed
\* function of the two texts, as the embedding model is deterministic
Relevance(query, content) ==
    LET w == IF query = "sets" THEN 37 ELSE 53
        newlines == Cardinality({i \in 1..Len(content) : content[i] = NL})
    IN  ((Len(content) * w + 911 * newlines) % 1201) * 9 - 1800

RECURSIVE Ranked(_, _, _)
\* the indices of the entries by descending relevance, earlier entry first on a tie
Ranked(coll, query, remaining) ==
    IF remaining = {} THEN <<>>
    ELSE LET best == CHOOSE i \in remaining : \A j \in remaining :
                        \/ Relevance(query, coll[i].page_content)
                               > Relevance(query, coll[j].page_content)
                        \/ /\ Relevance(query, coll[i].page_content)
                                  = Relevance(query, coll[j].page_content)
                           /\ i <= j
         IN  <<best>> \o Ranked(coll, query, remaining \ {best})

\* the search called without k, so that the store's default of 4 applies
SearchWithoutK(coll, query, k) ==
    LET order == Ranked(coll, query, 1..Len(coll))
        n == IF DefaultK < Len(order) THEN DefaultK ELSE Len(order)
    IN  [i \in 1..n |->
            [doc |-> coll[order[i]],
             score |-> Relevance(query, coll[order[i]].page_content)]]

similarity_search_with_relevance_scores(coll, query, k) ==
    LET order == Ranked(coll, query, 1..Len(coll))
        n == IF k < Len(order) THEN k ELSE Len(order)
    IN  [i \in 1..n |->
            [doc |-> coll[order[i]],
             score |-> Relevance(query, coll[order[i]].page_content)]]

-----------------------------------------------------------------------------
(* RAGSystem.retrieve_context *)

Rule70 == "======================================================================"

Result(context, sources, rag_used, message, chunks_found) ==
    [context |-> context, sources |-> sources, rag_used |-> rag_used,
     message |-> message, chunks_found |-> chunks_found]

NotInitializedMessage ==
    <<"RAG system ", "not initialized", ". Cannot retrieve from vector store.">>
NoResultsMessage == <<"Vector store returned 0 results.">>
SuccessMessage(n) ==
    <<"Successfully retrieved ", ToString(n), " chunks from knowledge base">>
ErrorMessage(fault) == <<"Error during vector store retrieval: ">> \o fault

\* str(e) of the faults the model raises
NoneAttributeFault ==
    <<"'NoneType' object has no attribute 'similarity_search_with_relevance_scores'">>
BasenameTypeFault == <<"expected str, bytes or os.PathLike object, not int">>

\* the guard with its second test inverted
NotInitializedInverted(initialized, store) == ~initialized /\ store # None

\* the guard of the short circuit
NotInitialized(initialized, store) == ~initialized \/ store = None

\* a block of the context numbered from zero, as enumerate counts by default
ContextPartFromZero(number, page, score, page_content) ==
    <<NL, Rule70, NL,
      "SOURCE ", ToString(number - 1), " | Page ">> \o Str(page)
        \o <<" | Relevance: ", Fixed2(score), NL, Rule70, NL>>
        \o page_content \o <<NL, Rule70, NL>>

\* one block of the context
ContextPart(number, page, score, page_content) ==
    <<NL, Rule70, NL,
      "SOURCE ", ToString(number), " | Page ">> \o Str(page)
        \o <<" | Relevance: ", Fixed2(score), NL, Rule70, NL>>
        \o page_content \o <<NL, Rule70, NL>>

\* the preview without the replacement of newlines
PreviewKeepingNewlines(page_content) ==
    Prefix(page_content, PreviewLen) \o <<"...">>

\* doc.page_content[:150].replace('\n', ' ') + "..."
Preview(page_content) ==
    ReplaceNewlines(Prefix(page_content, PreviewLen)) \o <<"...">>

\* an entry that reports the page counted from 1
SourceEntryPageFromOne(number, source_name, page, score, page_content) ==
    [number |-> number,
     file_name |-> Basename(source_name.str),
     page |-> IF IsStr(page) THEN page ELSE PyInt(page.int + 1),
     relevance_score |-> Round3(score),
     preview |-> Preview(page_content)]

\* one entry of the sources list
SourceEntry(number, source_name, page, score, page_content) ==
    [number |-> number,
     file_name |-> Basename(source_name.str),
     page |-> page,
     relevance_score |-> Round3(score),
     preview |-> Preview(page_content)]

RECURSIVE ProcessChunks(_, _, _)
\* the loop over docs_with_scores; it stops where os.path.basename raises
ProcessChunks(docs, i, acc) ==
    IF i > Len(docs) THEN acc
    ELSE LET doc == docs[i].doc
             score == docs[i].score
             page == MetaGet(doc.metadata, "page", PyStr(<<"Unknown">>))
             source_name == MetaGet(doc.metadata, "source", PyStr(<<"discrete_math.pdf">>))
             parts == Append(acc.context_parts,
                             ContextPart(i, page, score, doc.page_content))
         IN  IF ~IsStr(source_name)
             THEN [context_parts |-> parts, sources |-> acc.sources,
                   raised |-> TRUE, fault |-> BasenameTypeFault]
             ELSE ProcessChunks(docs, i + 1,
                     [context_parts |-> parts,
                      sources |-> Append(acc.sources,
                                    SourceEntry(i, source_name, page, score,
                                                doc.page_content)),
                      raised |-> FALSE, fault |-> <<>>])

\* how a call ends: the dictionary returned, whether the call raised instead,
\* whether the store's search was invoked, and what the search returned
Returned(value, searched, docs) ==
    [raised |-> FALSE, value |-> value, searched |-> searched, docs |-> docs]

\* a call that lets the fault escape to its caller
Raised(searched, docs) ==
    [raised |-> TRUE, value |-> Result(<<>>, <<>>, FALSE, <<>>, 0),
     searched |-> searched, docs |-> docs]

\* an except clause that lets the fault go on to the caller
ExceptHandlerReraise(fault, partial, searched, docs) == Raised(searched, docs)

\* an except clause that returns the sources built before the fault
ExceptHandlerPartial(fault, partial, searched, docs) ==
    Returned(Result(<<>>, partial, FALSE, ErrorMessage(fault), Len(partial)),
             searched, docs)

\* the except clause: fault is str(e), partial the sources built so far
ExceptHandler(fault, partial, searched, docs) ==
    Returned(Result(<<>>, <<>>, FALSE, ErrorMessage(fault), 0), searched, docs)

\* the return of the short circuit
NotInitializedReturn ==
    Returned(Result(<<>>, <<>>, FALSE, NotInitializedMessage, 0), FALSE, <<>>)

\* an empty search taken for a success
NoResultsAsSuccess(docs) ==
    Returned(Result(<<>>, <<>>, TRUE, SuccessMessage(Len(docs)), Len(docs)), TRUE, docs)

\* the return on an empty search
NoResultsReturn(docs) ==
    Returned(Result(<<>>, <<>>, FALSE, NoResultsMessage, 0), TRUE, docs)

\* the return after a loop that appends to a sources list kept between calls
SuccessReturnSharedSources(docs, done) ==
    Returned(Result(Join(<<NL>>, done.context_parts), result.sources \o done.sources,
                    TRUE, SuccessMessage(Len(docs)), Len(docs)),
             TRUE, docs)

\* the return after the loop
SuccessReturn(docs, done) ==
    Returned(Result(Join(<<NL>>, done.context_parts), done.sources, TRUE,
                    SuccessMessage(Len(docs)), Len(docs)),
             TRUE, docs)

\* search_fault: <<>> when the store answers, else the text of the fault it raises
retrieve_context(initialized, store, coll, query, k, search_fault) ==
    IF NotInitialized(initialized, store) THEN NotInitializedReturn
    ELSE IF store = None THEN ExceptHandler(NoneAttributeFault, <<>>, FALSE, <<>>)
    ELSE IF search_fault # <<>> THEN ExceptHandler(search_fault, <<>>, TRUE, <<>>)
    ELSE LET docs_with_scores == similarity_search_with_relevance_scores(coll, query, k)
         IN  IF Len(docs_with_scores) = 0 THEN NoResultsReturn(docs_with_scores)
             ELSE LET done == ProcessChunks(docs_with_scores, 1,
                                [context_parts |-> <<>>, sources |-> <<>>,
                                 raised |-> FALSE, fault |-> <<>>])
                  IN  IF done.raised
                      THEN ExceptHandler(done.fault, done.sources, TRUE, docs_with_scores)
                      ELSE SuccessReturn(docs_with_scores, done)

-----------------------------------------------------------------------------
(* The tool functions *)

\* the rule under a banner: 60 box-drawing dashes in the source
Rule60 == "------------------------------------------------------------"

SuccessBanner == "RAG RETRIEVAL SUCCESSFUL"
FailedBanner == "RAG RETRIEVAL FAILED"
CalculusBanner == "CALCULUS KNOWLEDGE BASE STATUS"
ChunksLabel == "Chunks Retrieved: "
ItemOpen == "\n["
GeneralKnowledge == "general LLM knowledge"

\* the two lines the loop over result['sources'] adds for one source
SourceItem(src) ==
    <<ItemOpen, ToString(src.number), "] ">> \o src.file_name
        \o <<" - Page ">> \o Str(src.page)
        \o <<" (Relevance: ", Repr3(src.relevance_score), ")",
             NL, "    Preview: ">> \o src.preview \o <<NL>>

SuccessText(res) ==
    <<NL, SuccessBanner, NL, Rule60, NL, NL, "Status: ">> \o res.message
        \o <<NL, ChunksLabel, ToString(res.chunks_found), NL, NL,
             "RETRIEVED CONTEXT FROM KNOWLEDGE BASE:", NL>>
        \o res.context
        \o <<NL, NL, "SOURCES:", NL>>
        \o Flatten([i \in 1..Len(res.sources) |-> SourceItem(res.sources[i])])
        \o <<NL, Rule60, NL, NL,
             "IMPORTANT: You MUST base your answer on the context above from the knowledge base.",
             NL, "Do NOT use general LLM knowledge. Cite the sources in your response.", NL>>

FailedText(res) ==
    <<NL, FailedBanner, NL, Rule60, NL, NL, "Status: ">> \o res.message
        \o <<NL, ChunksLabel, "0", NL, NL,
             "Since no context was retrieved from the knowledge base, you may use ", NL,
             GeneralKnowledge, " to answer this question. However, clearly state that ", NL,
             "you are using LLM knowledge and not the knowledge base.", NL, Rule60, NL>>

\* the rendering without its else branch
ToolTextAlwaysSuccess(res) == SuccessText(res)

\* the text query_discrete_math_rag builds from the dictionary
ToolText(res) == IF res.rag_used THEN SuccessText(res) ELSE FailedText(res)

\* the text query_calculus_rag returns
CalculusText ==
    <<NL, CalculusBanner, NL, Rule60, NL, NL,
      "Status: ", "Calculus knowledge base is ", "not yet implemented", NL,
      ChunksLabel, "0", NL, NL,
      "You may use ", GeneralKnowledge, " to answer calculus questions.", NL,
      "Please state clearly that you are using LLM general knowledge.", NL, Rule60, NL>>

-----------------------------------------------------------------------------
(* The state machine *)

NoResult == Result(<<>>, <<>>, FALSE, <<>>, 0)

Call(op, query, k, search_fault, r) ==
    [op |-> op, query |-> query, k |-> k, search_fault |-> search_fault,
     raised |-> r.raised, searched |-> r.searched, docs |-> r.docs]

NoCall == Call("none", "", 0, <<>>, Returned(NoResult, FALSE, <<>>))

\* nothing retrieved yet
NoProbe == [set |-> FALSE, query |-> "", k |-> 0, search_fault |-> <<>>,
            value |-> NoResult, others |-> FALSE]

PyNone == [none |-> TRUE]

\* what an executor did: which one, whether the agent got text from its tool,
\* the fault its kickoff raised (<<>> when it returned), the answer text
Executed(executor, tool, fault, answer_text) ==
    [executor |-> executor, tool |-> tool, fault |-> fault, answer_text |-> answer_text]

NotExecuted == Executed("none", "none", <<>>, <<>>)

\* the quality assessment step: whether the handler reached it, whether it
\* invoked the assessment, and the branch of should_run_reflection that decided
Assessed(assessment, reflected, branch) ==
    [assessment |-> assessment, reflected |-> reflected, branch |-> branch]

NotAssessed == Assessed(FALSE, FALSE, "none")

\* the Submit Query handler's trace: how it ended, the route it parsed, what
\* the executor did and what the quality assessment step did
Flow(outcome, route, executed, assessed) ==
    [outcome |-> outcome, route |-> route, executor |-> executed.executor,
     tool |-> executed.tool, fault |-> executed.fault,
     answer_text |-> executed.answer_text, assessment |-> assessed.assessment,
     reflected |-> assessed.reflected, branch |-> assessed.branch]

NoFlow == Flow("none", PyNone, NotExecuted, NotAssessed)

DefaultInterval == 7

\* the session state a new session starts with
SessionInit ==
    /\ query_count = 0
    /\ last_reflection_date = PyNone
    /\ reflection_interval_days = DefaultInterval
    /\ force_reflection = FALSE
    /\ now = 0
    /\ flow = NoFlow

Init ==
    /\ phase = "import"
    /\ collection \in SeqsUpTo(PersistedEntries, MaxPersisted)
    /\ db_initialized = FALSE
    /\ vector_store = None
    /\ embeddings = None
    /\ init_steps = <<>>
    /\ init_outcome = "none"
    /\ init_documents = <<>>
    /\ probe = NoProbe
    /\ call = NoCall
    /\ result = NoResult
    /\ response = <<>>
    /\ SessionInit

\* rag_system = RAGSystem(), at import of the module
Construct ==
    /\ phase = "import"
    /\ \E pdf_exists, load_ok, embed_ok, build_ok \in BOOLEAN, documents \in Documents :
          LET s == initialize_rag(pdf_exists, load_ok, documents, embed_ok, build_ok,
                                  collection)
          IN  /\ db_initialized' = s.db_initialized
              /\ vector_store' = s.vector_store
              /\ embeddings' = s.embeddings
              /\ collection' = s.collection
              /\ init_steps' = s.steps
              /\ init_outcome' = s.outcome
              /\ init_documents' = IF s.outcome \in {"build_raised", "built"}
                                   THEN documents ELSE <<>>
              /\ phase' = IF s.raised THEN "crashed" ELSE "ready"
    /\ UNCHANGED <<call, result, response, probe, session>>

SearchFaults == {<<>>} \cup FaultTexts

\* retrieve_context dropping the store when the search raised
RetrieveContextDroppingStore ==
    /\ phase = "ready"
    /\ \E query \in Queries, k \in (0..MaxK) \cup {DefaultK}, search_fault \in SearchFaults :
          LET r == retrieve_context(db_initialized, vector_store, collection,
                                    query, k, search_fault)
              dropped == db_initialized /\ search_fault # <<>>
          IN  /\ call' = Call("retrieve_context", query, k, search_fault, r)
              /\ result' = IF r.raised THEN NoResult ELSE r.value
              /\ db_initialized' = (db_initialized /\ ~dropped)
              /\ vector_store' = IF dropped THEN None ELSE vector_store
    /\ response' = <<>>
    /\ UNCHANGED <<phase, collection, embeddings, init_steps, init_outcome,
                   init_documents, probe, session>>

\* rag_system.retrieve_context(query, k), called directly
RetrieveContext ==
    /\ phase = "ready"
    /\ \E query \in Queries, k \in (0..MaxK) \cup {DefaultK}, search_fault \in SearchFaults :
          LET r == retrieve_context(db_initialized, vector_store, collection,
                                    query, k, search_fault)
          IN  /\ call' = Call("retrieve_context", query, k, search_fault, r)
              /\ result' = IF r.raised THEN NoResult ELSE r.value
    /\ response' = <<>>
    /\ UNCHANGED <<index, probe, session>>

\* the tool query_discrete_math_rag(query)
QueryDiscreteMathRag ==
    /\ phase = "ready"
    /\ \E query \in Queries, search_fault \in SearchFaults :
          LET r == retrieve_context(db_initialized, vector_store, collection,
                                    query, ToolK, search_fault)
          IN  /\ call' = Call("query_discrete_math_rag", query, ToolK, search_fault, r)
              /\ result' = IF r.raised THEN NoResult ELSE r.value
              /\ response' = IF r.raised THEN <<>> ELSE ToolText(r.value)
    /\ UNCHANGED <<index, probe, session>>

\* the tool query_calculus_rag(query)
QueryCalculusRag ==
    /\ phase = "ready"
    /\ \E query \in Queries :
          call' = Call("query_calculus_rag", query, 0, <<>>,
                       Returned(NoResult, FALSE, <<>>))
    /\ result' = NoResult
    /\ response' = CalculusText
    /\ UNCHANGED <<index, probe, session>>

Next ==
    \/ Construct
    \/ RetrieveContext
    \/ QueryDiscreteMathRag
    \/ QueryCalculusRag

Spec == Init /\ [][Next]_vars

-----------------------------------------------------------------------------
(* Repeated retrievals: the same machine, with only direct calls of
   retrieve_context, remembering what the first of them returned *)

ProbeKs == {1, DefaultK}

\* rag_system.retrieve_context(query, k); the first call of the run is
\* remembered, and so is whether a call with other inputs followed it
RepeatedRetrieve ==
    /\ phase = "ready"
    /\ \E query \in Queries, k \in ProbeKs, search_fault \in SearchFaults :
          LET r == retrieve_context(db_initialized, vector_store, collection,
                                    query, k, search_fault)
              value == IF r.raised THEN NoResult ELSE r.value
          IN  /\ call' = Call("retrieve_context", query, k, search_fault, r)
              /\ result' = value
              /\ probe' = IF ~probe.set
                          THEN [set |-> TRUE, query |-> query, k |-> k,
                                search_fault |-> search_fault, value |-> value,
                                others |-> FALSE]
                          ELSE IF <<query, k, search_fault>>
                                     = <<probe.query, probe.k, probe.search_fault>>
                          THEN probe
                          ELSE [probe EXCEPT !.others = TRUE]
    /\ response' = <<>>
    /\ UNCHANGED <<index, session>>

RepeatNext ==
    \/ Construct
    \/ RepeatedRetrieve

RepeatSpec == Init /\ [][RepeatNext]_vars

-----------------------------------------------------------------------------
(* The application (src/app.py), its planner and executors (src/planner.py)
   and its reflector (src/reflective.py).

   The language model behind crew.kickoff() is the environment: the text the
   planner returns, whether the agent calls its tool, and whether a kickoff
   returns or raises are inputs of the handler.  Time is counted in half
   days, so that an elapsed time need not be a whole number of days. *)

MaxQueries == 2
MaxTime == 27

UnitsPerDay == 2

\* a datetime
At(t) == [time |-> t]

\* timedelta.days of the difference of two datetimes
Days(later, earlier) == (later.time - earlier.time) \div UnitsPerDay

\* the options of the Reflection Frequency selectbox
IntervalOptions == {7, 14, 30}

\* what the user typed: nothing, white space only, a question
UserQueries == {<<>>, <<SP, NL>>, <<SP, "w", "h", "y", SP>>}

IsSpace(c) == c \in {SP, NL}

RECURSIVE LStrip(_)
LStrip(text) ==
    IF Len(text) > 0 /\ IsSpace(Head(text)) THEN LStrip(Tail(text)) ELSE text

RECURSIVE RStrip(_)
RStrip(text) ==
    IF Len(text) > 0 /\ IsSpace(text[Len(text)])
    THEN RStrip(SubSeq(text, 1, Len(text) - 1)) ELSE text

\* str.strip()
Strip(text) == RStrip(LStrip(text))

\* the text of the planner's CrewOutput: braced says whether the pattern
\* \{[^}]+\} matches in it, valid whether json.loads accepts the match, obj
\* what it loads to, discrete_word whether the lowered text contains 'discrete'
PlannerText(braced, valid, obj, discrete_word) ==
    [braced |-> braced, valid |-> valid, obj |-> obj, discrete_word |-> discrete_word]

Reasoning == PyStr(<<"because">>)

PlanningOutputs ==
    { PlannerText(TRUE, TRUE, [route |-> PyStr(<<"discrete_math">>), reasoning |-> Reasoning], TRUE),
      PlannerText(TRUE, TRUE, [route |-> PyStr(<<"calculus">>), reasoning |-> Reasoning], FALSE),
      PlannerText(TRUE, TRUE, [route |-> PyStr(<<"algebra">>), reasoning |-> Reasoning], FALSE),
      PlannerText(TRUE, TRUE, [route |-> PyNone, reasoning |-> Reasoning], FALSE),
      PlannerText(TRUE, TRUE, [reasoning |-> Reasoning], TRUE),
      PlannerText(TRUE, FALSE, <<>>, TRUE),
      PlannerText(FALSE, FALSE, <<>>, TRUE),
      PlannerText(FALSE, FALSE, <<>>, FALSE) }

\* the except clause of the parsing: default to calculus
ParseFallback == [route |-> PyStr(<<"calculus">>)]

\* the parsing of the planning result into route_info
ParseRouteInfo(text) ==
    IF text.braced
    THEN IF text.valid THEN text.obj ELSE ParseFallback
    ELSE IF text.discrete_word
    THEN [route |-> PyStr(<<"discrete_math">>)]
    ELSE [route |-> PyStr(<<"calculus">>)]

\* route = route_info.get("route", "calculus")
RouteOf(route_info) == MetaGet(route_info, "route", PyStr(<<"calculus">>))

\* the faults a kickoff raises
KickoffFaults == {<<"rate limit exceeded">>}

AnswerTexts == {<<"the answer">>}

\* the cross mark and the words that open the raw text of an ErrorResult
ErrorPrefix == "X Error executing query: "

ErrorResult(error_msg) == [raw |-> <<ErrorPrefix>> \o error_msg]

CrewOutput(raw) == [raw |-> raw]

\* what an executor gives the handler: a result object, or a raise
ExecReturned(value, tool, fault) ==
    [raised |-> FALSE, value |-> value, tool |-> tool, fault |-> fault]

ExecRaised(tool, fault) ==
    [raised |-> TRUE, value |-> CrewOutput(<<>>), tool |-> tool, fault |-> fault]

\* an executor without its except clause
DiscreteExceptReraise(error_msg, tool) == ExecRaised(tool, error_msg)

\* the except clause of execute_discrete_math_query
DiscreteExcept(error_msg, tool) ==
    ExecReturned(ErrorResult(error_msg), tool, error_msg)

\* the except clause of execute_calculus_query
CalculusExcept(error_msg, tool) ==
    ExecReturned(ErrorResult(error_msg), tool, error_msg)

\* what a kickoff of the executing crew does: whether the agent calls its
\* tool (and whether the store then raises), and whether answer generation
\* raises (fault) or returns (answer)
Kickoff(tool, search_fault, fault, answer) ==
    [tool |-> tool, search_fault |-> search_fault, fault |-> fault, answer |-> answer]

Kickoffs ==
    { Kickoff(tool, search_fault, fault, answer) :
        tool \in BOOLEAN, search_fault \in SearchFaults,
        fault \in {<<>>} \cup KickoffFaults, answer \in AnswerTexts }

\* Executor.execute_discrete_math_query: the agent's tool is
\* query_discrete_math_rag, run on the state of the index
execute_discrete_math_query(initialized, store, coll, kickoff) ==
    LET r == retrieve_context(initialized, store, coll, "sets", ToolK,
                              kickoff.search_fault)
        tool == IF ~kickoff.tool THEN "none"
                ELSE IF r.raised THEN "raised"
                ELSE IF Len(ToolText(r.value)) > 0 THEN "text" ELSE "empty"
    IN  IF tool = "raised" THEN DiscreteExcept(NoneAttributeFault, tool)
        ELSE IF kickoff.fault # <<>> THEN DiscreteExcept(kickoff.fault, tool)
        ELSE ExecReturned(CrewOutput(kickoff.answer), tool, <<>>)

\* Executor.execute_calculus_query: the agent's tool is query_calculus_rag
execute_calculus_query(kickoff) ==
    LET tool == IF ~kickoff.tool THEN "none"
                ELSE IF Len(CalculusText) > 0 THEN "text" ELSE "empty"
    IN  IF kickoff.fault # <<>> THEN CalculusExcept(kickoff.fault, tool)
        ELSE ExecReturned(CrewOutput(kickoff.answer), tool, <<>>)

\* what should_run_reflection() returns, force_reflection as it leaves it,
\* and the branch it returned from
Decision(run, force, branch) ==
    [run |-> run, force_reflection |-> force, branch |-> branch]

\* should_run_reflection that leaves the manual trigger pending
should_run_reflection_keeping(force, last, clock, interval) ==
    IF force THEN Decision(TRUE, TRUE, "manual")
    ELSE IF last = PyNone THEN Decision(TRUE, force, "first")
    ELSE Decision(Days(clock, last) >= interval, force, "schedule")

should_run_reflection(force, last, clock, interval) ==
    IF force THEN Decision(TRUE, FALSE, "manual")
    ELSE IF last = PyNone THEN Decision(TRUE, force, "first")
    ELSE Decision(Days(clock, last) >= interval, force, "schedule")

\* Step 3 of the handler: the quality assessment, when it is due.
\* Reflector.evaluate_answer returns or raises; nothing catches its raise.
Assess(route, executed) ==
    LET decision == should_run_reflection(force_reflection, last_reflection_date,
                                          At(now), reflection_interval_days)
    IN  /\ force_reflection' = decision.force_reflection
        /\ IF decision.run
           THEN \E evaluate_returns \in BOOLEAN :
                   IF evaluate_returns
                   THEN /\ flow' = Flow("done", route, executed,
                                        Assessed(TRUE, TRUE, decision.branch))
                        /\ last_reflection_date' = At(now)
                   ELSE /\ flow' = Flow("reflection_raised", route, executed,
                                        Assessed(TRUE, TRUE, decision.branch))
                        /\ UNCHANGED last_reflection_date
           ELSE /\ flow' = Flow("done", route, executed,
                                Assessed(TRUE, FALSE, decision.branch))
                /\ UNCHANGED last_reflection_date

\* Step 2 of the handler: the spinner label route.replace('_', ' ').title(),
\* which raises when route is not a string, then the dispatch to an executor
Dispatch(route) ==
    IF ~IsStr(route)
    THEN /\ flow' = Flow("label_raised", route, NotExecuted, NotAssessed)
         /\ UNCHANGED <<last_reflection_date, force_reflection>>
    ELSE \E kickoff \in Kickoffs :
            LET discrete == (route = PyStr(<<"discrete_math">>))
                executor == IF discrete THEN "discrete_math" ELSE "calculus"
                execution == IF discrete
                             THEN execute_discrete_math_query(
                                      db_initialized, vector_store, collection, kickoff)
                             ELSE execute_calculus_query(kickoff)
            IN  IF execution.raised
                THEN /\ flow' = Flow("executor_raised", route,
                                     Executed(executor, execution.tool,
                                              execution.fault, <<>>),
                                     NotAssessed)
                     /\ UNCHANGED <<last_reflection_date, force_reflection>>
                ELSE Assess(route, Executed(executor, execution.tool, execution.fault,
                                            execution.value.raw))

\* the handler of the Submit Query button
SubmitQuery ==
    /\ phase = "ready"
    /\ \E user_query \in UserQueries :
          IF Strip(user_query) = <<>>
          THEN /\ flow' = Flow("blank", PyNone, NotExecuted, NotAssessed)
               /\ UNCHANGED <<query_count, last_reflection_date, force_reflection>>
          ELSE /\ query_count < MaxQueries
               /\ query_count' = query_count + 1
               /\ \/ \* Planner.analyze_and_route raised: st.error, st.stop
                     /\ flow' = Flow("stopped", PyNone, NotExecuted, NotAssessed)
                     /\ UNCHANGED <<last_reflection_date, force_reflection>>
                  \/ \E text \in PlanningOutputs :
                        Dispatch(RouteOf(ParseRouteInfo(text)))
    /\ UNCHANGED <<index, call, result, response, probe,
                   reflection_interval_days, now>>

\* the button Run Reflection Now: set the flag, st.rerun()
RunReflectionNow ==
    /\ phase = "ready"
    /\ force_reflection' = TRUE
    /\ UNCHANGED <<index, call, result, response, probe, query_count,
                   last_reflection_date, reflection_interval_days, now, flow>>

\* the selectbox Reflection Frequency
SelectInterval ==
    /\ phase = "ready"
    /\ \E reflection_interval \in IntervalOptions :
          reflection_interval_days' = reflection_interval
    /\ UNCHANGED <<index, call, result, response, probe, query_count,
                   last_reflection_date, force_reflection, now, flow>>

\* six and a half days, or seven days
TickSteps == {13, 14}

\* time passes between two interactions
Tick ==
    /\ \E d \in TickSteps :
          /\ now + d <= MaxTime
          /\ now' = now + d
    /\ UNCHANGED <<index, call, result, response, probe, query_count,
                   last_reflection_date, reflection_interval_days,
                   force_reflection, flow>>

\* the collections the application is started on
AppCollections == {<<>>, <<NumericSourceEntry>>}

\* the application's script starts after the import of rag_tool constructed
\* the RAG system: on a missing PDF, or on a one-page document
AppInit ==
    /\ \E pdf_exists \in BOOLEAN, coll \in AppCollections :
          LET s == initialize_rag(pdf_exists, TRUE, <<TextShort>>, TRUE, TRUE, coll)
          IN  /\ phase = "ready"
              /\ collection = s.collection
              /\ db_initialized = s.db_initialized
              /\ vector_store = s.vector_store
              /\ embeddings = s.embeddings
              /\ init_steps = s.steps
              /\ init_outcome = s.outcome
              /\ init_documents = IF s.outcome = "built" THEN <<TextShort>> ELSE <<>>
    /\ probe = NoProbe
    /\ call = NoCall
    /\ result = NoResult
    /\ response = <<>>
    /\ SessionInit

AppNext ==
    \/ SubmitQuery
    \/ RunReflectionNow
    \/ SelectInterval
    \/ Tick

AppSpec == AppInit /\ [][AppNext]_vars

-----------------------------------------------------------------------------
(* Vocabulary of the properties *)

RetrievalCall == call.op \in {"retrieve_context", "query_discrete_math_rag"}

Built == db_initialized /\ vector_store # None

ResultKeys == {"context", "sources", "rag_used", "message", "chunks_found"}

FailedShape(res) ==
    /\ res.rag_used = FALSE
    /\ res.chunks_found = 0
    /\ res.context = <<>>
    /\ res.sources = <<>>

\* pattern occurs in text, as a run of consecutive tokens
ContainsSeq(text, pattern) ==
    \E i \in 0..(Len(text) - Len(pattern)) :
        \A j \in 1..Len(pattern) : text[i + j] = pattern[j]

Contains(text, token) == \E i \in 1..Len(text) : text[i] = token

Min(a, b) == IF a < b THEN a ELSE b

IsPrefix(s, t) == Len(s) <= Len(t) /\ \A i \in 1..Len(s) : s[i] = t[i]

\* the order of the steps of initialize_rag
InitOrder == <<"exists", "load", "split", "embed", "build">>

\* an entry the loop cannot process: its 'source' metadata is not a string
Unprocessable(entry) ==
    "source" \in DOMAIN entry.metadata /\ ~IsStr(entry.metadata.source)

ProcessingFaults(docs) == \E i \in 1..Len(docs) : Unprocessable(docs[i].doc)

\* the step is a run of the Submit Query handler that displayed an answer
AnsweredStep == query_count' = query_count + 1 /\ flow'.assessment

\* a reflection is due in the current state
Due ==
    \/ force_reflection
    \/ last_reflection_date = PyNone
    \/ /\ last_reflection_date # PyNone
       /\ Days(At(now), last_reflection_date) >= reflection_interval_days

-----------------------------------------------------------------------------
\* C1: retrieve_context never raises, whatever the query, k and the state of the
\* index; it returns a dictionary with the keys context, sources, rag_used,
\* message and chunks_found, in which chunks_found is the length of sources.
C1_NeverRaises ==
    RetrievalCall =>
        /\ ~call.raised
        /\ DOMAIN result = ResultKeys
        /\ result.chunks_found = Len(result.sources)

\* a search that faulted on a built index, answered by a returned dictionary
C1_Witness ==
    /\ call.op = "retrieve_context"
    /\ Built
    /\ call.search_fault # <<>>
    /\ call.searched
    /\ result.chunks_found = 0

\* C2: when initialization did not succeed, every retrieve_context call returns
\* rag_used false, chunks_found 0, empty context and sources and a message that
\* says "not initialized", and the store's search is not invoked.
C2_NotInitializedShortCircuit ==
    (RetrievalCall /\ (~db_initialized \/ vector_store = None)) =>
        /\ FailedShape(result)
        /\ Contains(result.message, "not initialized")
        /\ ~call.searched

\* a call with the default k against a system whose build raised
C2_Witness ==
    /\ call.op = "retrieve_context"
    /\ call.k = DefaultK
    /\ init_outcome = "build_raised"
    /\ ~db_initialized
    /\ Contains(result.message, "not initialized")

C4_AtMostKRanked ==
    (RetrievalCall /\ Built) =>
        /\ Len(result.sources) <= Min(call.k, Len(collection))
        /\ result.rag_used =>
              /\ Len(result.sources) = Len(call.docs)
              /\ \A i \in 1..Len(result.sources) :
                    /\ result.sources[i].relevance_score = Round3(call.docs[i].score)
                    /\ result.sources[i].page = call.docs[i].doc.metadata.page
        /\ \A i \in 1..(Len(result.sources) - 1) :
              result.sources[i].relevance_score >= result.sources[i + 1].relevance_score

\* k cuts the result short: more entries than k, and the scores really differ
C4_Witness ==
    /\ call.op = "retrieve_context"
    /\ Built
    /\ call.k = 2
    /\ Len(collection) > 2
    /\ Len(result.sources) = 2
    /\ result.sources[1].relevance_score > result.sources[2].relevance_score

\* C5: a fault of the search, or a fault raised while the returned chunks are
\* processed, does not escape: the call returns rag_used false, chunks_found 0,
\* empty context and sources, and a message that holds the text of the fault;
\* no partly built sources list is returned.
C5_FaultsAreData ==
    (RetrievalCall /\ Built) =>
        /\ call.search_fault # <<>> =>
              /\ ~call.raised
              /\ FailedShape(result)
              /\ ContainsSeq(result.message, call.search_fault)
        /\ ProcessingFaults(call.docs) =>
              /\ ~call.raised
              /\ FailedShape(result)
              /\ ContainsSeq(result.message, BasenameTypeFault)

\* the second returned chunk cannot be processed, the first was
C5_Witness ==
    /\ call.op = "retrieve_context"
    /\ Built
    /\ Len(call.docs) >= 2
    /\ ~Unprocessable(call.docs[1].doc)
    /\ Unprocessable(call.docs[2].doc)
    /\ result.sources = <<>>

\* C6: constructing the RAG system never raises; when the document is missing,
\* has no pages, yields no chunks, or the model load or the build raises,
\* db_initialized ends false and later retrieve_context calls return the failed
\* shape instead of raising.
C6_ConstructionDegrades ==
    /\ phase # "crashed"
    /\ (phase = "ready" /\ init_outcome # "built") =>
          /\ init_outcome \in {"missing", "load_raised", "no_pages", "no_chunks",
                               "embed_raised", "build_raised"}
          /\ db_initialized = FALSE
          /\ RetrievalCall => (~call.raised /\ FailedShape(result))

\* a retrieval after the embedding model failed to load
C6_Witness ==
    /\ phase = "ready"
    /\ init_outcome = "embed_raised"
    /\ call.op = "query_discrete_math_rag"
    /\ ~result.rag_used

-----------------------------------------------------------------------------
(* Vocabulary of the properties on texts *)

Count(text, token) == Cardinality({i \in 1..Len(text) : text[i] = token})

RECURSIVE WeightedSum(_, _)
\* the sum over the token lengths n in lengths of n times the tokens of length n
WeightedSum(text, lengths) ==
    IF lengths = {} THEN 0
    ELSE LET n == CHOOSE x \in lengths : TRUE
         IN  n * Cardinality({i \in 1..Len(text) : Len(text[i]) = n})
                 + WeightedSum(text, lengths \ {n})

\* the number of characters of a tokenized string
CharLen(text) == WeightedSum(text, {Len(text[i]) : i \in 1..Len(text)})

RECURSIVE Ascending(_)
Ascending(S) ==
    IF S = {} THEN <<>>
    ELSE LET m == CHOOSE x \in S : \A y \in S : x <= y
         IN  <<m>> \o Ascending(S \ {m})

\* the positions of token in text, in order
Positions(text, token) == Ascending({i \in 1..Len(text) : text[i] = token})

\* pattern occurs in text at position p
MatchesAt(text, p, pattern) ==
    /\ p + Len(pattern) - 1 <= Len(text)
    /\ \A j \in 1..Len(pattern) : text[p + j - 1] = pattern[j]

\* the itemized entry of a source, as the documented format gives it:
\* [n] <file> - Page <page> (Relevance: <score>), then the preview line
ItemFormat(src) ==
    <<ItemOpen, ToString(src.number), "] ">> \o src.file_name \o <<" - Page ">>
        \o Str(src.page) \o <<" (Relevance: ", Repr3(src.relevance_score), ")", NL,
                              "    Preview: ">> \o src.preview \o <<NL>>

-----------------------------------------------------------------------------
\* C7: the text of the discrete-math tool carries exactly one of the two
\* banners, SUCCESSFUL when rag_used and FAILED when not; it holds a line
\* "Chunks Retrieved: N" with N the result's chunks_found; on success it lists
\* one itemized entry per source, in order; on failure it holds the status
\* message and the permission to fall back to general knowledge.
C7_ToolTextShape ==
    (call.op = "query_discrete_math_rag" /\ ~call.raised) =>
        /\ Count(response, SuccessBanner) = (IF result.rag_used THEN 1 ELSE 0)
        /\ Count(response, FailedBanner) = (IF result.rag_used THEN 0 ELSE 1)
        /\ ContainsSeq(response, <<NL, ChunksLabel, ToString(result.chunks_found), NL>>)
        /\ result.rag_used =>
              LET at == Positions(response, ItemOpen)
              IN  /\ Len(at) = Len(result.sources)
                  /\ \A i \in 1..Len(at) :
                        MatchesAt(response, at[i], ItemFormat(result.sources[i]))
        /\ ~result.rag_used =>
              /\ ContainsSeq(response, <<"Status: ">> \o result.message \o <<NL>>)
              /\ Contains(response, GeneralKnowledge)
              /\ Count(response, ItemOpen) = 0

\* a successful tool call that lists several sources
C7_Witness ==
    /\ call.op = "query_discrete_math_rag"
    /\ result.rag_used
    /\ Len(result.sources) >= 2
    /\ Count(response, ItemOpen) >= 2

\* C8: the calculus tool returns the same fixed text for every query and every
\* state of the index, and the text has the FAILED shape of the tool adapter:
\* the failure banner, the "not yet implemented" status, "Chunks Retrieved: 0"
\* and the permission to fall back to general knowledge.
C8_CalculusFailedShape ==
    call.op = "query_calculus_rag" =>
        /\ response = CalculusText
        /\ Count(response, FailedBanner) = 1
        /\ Count(response, SuccessBanner) = 0
        /\ Contains(response, "not yet implemented")
        /\ ContainsSeq(response, <<NL, ChunksLabel, "0", NL>>)
        /\ Contains(response, GeneralKnowledge)

\* C9 as stated: every preview of a successful result is at most 150
\* characters long, is the start of the chunk's text with each newline replaced
\* by a space, and holds no newline.
C9_Original ==
    (RetrievalCall /\ result.rag_used) =>
        \A i \in 1..Len(result.sources) :
            LET preview == result.sources[i].preview
                content == call.docs[i].doc.page_content
            IN  /\ CharLen(preview) <= PreviewLen
                /\ Len(preview) <= Len(content)
                /\ \A j \in 1..Len(preview) :
                      preview[j] = (IF content[j] = NL THEN SP ELSE content[j])
                /\ ~Contains(preview, NL)

\* C9 as amended: every preview of a successful result is the first 150
\* characters of the chunk's text (all of it when it is shorter) with each
\* newline replaced by a space, followed by the three characters "...": at most
\* 153 characters, none of them a newline.
C9_PreviewPlusEllipsis ==
    (RetrievalCall /\ result.rag_used) =>
        \A i \in 1..Len(result.sources) :
            LET preview == result.sources[i].preview
                content == call.docs[i].doc.page_content
                kept == Min(PreviewLen, Len(content))
            IN  /\ Len(preview) = kept + 1
                /\ \A j \in 1..kept :
                      preview[j] = (IF content[j] = NL THEN SP ELSE content[j])
                /\ preview[kept + 1] = "..."
                /\ CharLen(preview) <= PreviewLen + 3
                /\ ~Contains(preview, NL)

\* a chunk longer than 150 characters with a newline in its first 150
C9_Witness ==
    /\ RetrievalCall
    /\ result.rag_used
    /\ \E i \in 1..Len(result.sources) :
          /\ Len(call.docs[i].doc.page_content) > PreviewLen
          /\ Contains(SubSeq(call.docs[i].doc.page_content, 1, PreviewLen), NL)
          /\ CharLen(result.sources[i].preview) = PreviewLen + 3

\* C10 as stated: the page and the file recorded in a returned chunk's metadata
\* appear unchanged in the chunk's source entry: page equals the stored page and
\* file_name equals the stored file.
C10_Original ==
    (RetrievalCall /\ result.rag_used) =>
        \A i \in 1..Len(result.sources) :
            LET metadata == call.docs[i].doc.metadata
            IN  /\ result.sources[i].page = metadata.page
                /\ result.sources[i].file_name = metadata.source.str

\* C10 as amended: the i-th source entry carries the page stored with the i-th
\* returned chunk, unchanged, and as file_name the last component of the stored
\* source path (what follows its last "/"), the directory part being dropped.
C10_ProvenanceBasename ==
    (RetrievalCall /\ result.rag_used) =>
        /\ Len(result.sources) = Len(call.docs)
        /\ \A i \in 1..Len(result.sources) :
              LET metadata == call.docs[i].doc.metadata
                  stored == metadata.source.str
                  name == result.sources[i].file_name
              IN  /\ result.sources[i].page = metadata.page
                  /\ ~Contains(name, "/")
                  /\ Len(name) <= Len(stored)
                  /\ SubSeq(stored, Len(stored) - Len(name) + 1, Len(stored)) = name
                  /\ Len(name) < Len(stored) => stored[Len(stored) - Len(name)] = "/"

\* two returned chunks of different pages, each page in its own entry
C10_Witness ==
    /\ RetrievalCall
    /\ result.rag_used
    /\ Len(result.sources) >= 2
    /\ result.sources[1].page # result.sources[2].page
    /\ result.sources[1].page = call.docs[1].doc.metadata.page
    /\ result.sources[2].page = call.docs[2].doc.metadata.page

-----------------------------------------------------------------------------
\* C11: once the RAG system is constructed, no call of retrieve_context or of
\* a tool function changes db_initialized, vector_store or embeddings (nor the
\* collection): an index that failed to build stays unavailable and an index
\* that was built stays built, whatever the calls return.
C11_QueriesLeaveIndex ==
    [][phase = "ready" =>
          /\ UNCHANGED <<db_initialized, vector_store, embeddings, collection>>
          /\ phase' = "ready"]_vars

\* a search that raised on a built index, which is still built afterwards
C11_Witness ==
    /\ phase = "ready"
    /\ RetrievalCall
    /\ call.search_fault # <<>>
    /\ call.searched
    /\ init_outcome = "built"
    /\ db_initialized /\ vector_store = Chroma /\ embeddings = EmbeddingModel

-----------------------------------------------------------------------------
-----------------------------------------------------------------------------
\* C13: initialize_rag performs its steps in the order exists, load, split,
\* embed, build and stops at the first that fails: the steps performed are a
\* prefix of that order, and a run that stopped early ended in the outcome
\* of its last step; the vector store build is never invoked with zero
\* chunks; db_initialized is true only after the build returned, and then
\* vector_store and embeddings are both set.
C13_InitOrder ==
    /\ IsPrefix(init_steps, InitOrder)
    /\ (phase # "import") =>
          /\ Len(init_steps) >= 1
          /\ (Len(init_steps) = 1) <=> (init_outcome = "missing")
          /\ (Len(init_steps) = 2) <=> (init_outcome \in {"load_raised", "no_pages"})
          /\ (Len(init_steps) = 3) <=> (init_outcome = "no_chunks")
          /\ (Len(init_steps) = 4) <=> (init_outcome = "embed_raised")
          /\ (Len(init_steps) = 5) <=> (init_outcome \in {"build_raised", "built"})
    /\ (Len(init_steps) = 5) => Len(split_documents(init_documents)) > 0
    /\ db_initialized =>
          /\ init_steps = InitOrder
          /\ init_outcome = "built"
          /\ vector_store # None
          /\ embeddings # None

\* a build that raised: all five steps ran, on at least one chunk, the
\* embedding model stays set and db_initialized stays false
C13_Witness ==
    /\ phase = "ready"
    /\ init_steps = InitOrder
    /\ init_outcome = "build_raised"
    /\ Len(split_documents(init_documents)) >= 2
    /\ ~db_initialized
    /\ embeddings = EmbeddingModel
    /\ vector_store = None

-----------------------------------------------------------------------------
\* C14: a document of exactly one page, whose text is non-empty and shorter
\* than the chunk size of 800 characters, is split into exactly one chunk;
\* when the build returns, db_initialized is true, and a retrieve_context
\* with k = 4 that the store answers returns rag_used = true with exactly
\* one source.
C14_OnePageOneSource ==
    (/\ phase = "ready"
     /\ Len(init_documents) = 1
     /\ Len(init_documents[1]) \in 1..(ChunkSize - 1))
        =>
        /\ Len(split_documents(init_documents)) = 1
        /\ (init_outcome = "built") => db_initialized
        /\ (/\ init_outcome = "built"
            /\ call.op = "retrieve_context"
            /\ call.k = DefaultK
            /\ call.search_fault = <<>>)
              => /\ result.rag_used
                 /\ Len(result.sources) = 1

-----------------------------------------------------------------------------
\* C15: in every successful result the sources and the blocks of the context
\* are parallel and in ranked order: with n sources, the i-th source has
\* number i, the context holds n headings, the i-th of them reads
\* "SOURCE i | Page p" with p the page of the i-th source, and the text under
\* it is the text of the i-th retrieved chunk, the chunk the i-th source
\* previews.
C15_SourcesParallelContext ==
    (RetrievalCall /\ result.rag_used) =>
        LET at == Positions(result.context, "SOURCE ")
            n == Len(result.sources)
        IN  /\ n = Len(call.docs)
            /\ Len(at) = n
            /\ \A i \in 1..n :
                  LET src == result.sources[i]
                      chunk == call.docs[i].doc.page_content
                      heading == <<"SOURCE ", ToString(i), " | Page ">>
                                    \o Str(src.page) \o <<" | Relevance: ">>
                  IN  /\ src.number = i
                      /\ MatchesAt(result.context, at[i], heading)
                      /\ MatchesAt(result.context, at[i] + Len(heading) + 4,
                                   chunk \o <<NL, Rule70, NL>>)
                      /\ src.page = MetaGet(call.docs[i].doc.metadata, "page",
                                            PyStr(<<"Unknown">>))
                      /\ MatchesAt(src.preview, 1,
                                   Prefix(ReplaceNewlines(chunk), PreviewLen))

\* a successful result with two sources, of chunks that differ in page and text
C15_Witness ==
    /\ RetrievalCall
    /\ result.rag_used
    /\ Len(result.sources) = 2
    /\ result.sources[1].number = 1
    /\ result.sources[2].number = 2
    /\ result.sources[1].page # result.sources[2].page
    /\ call.docs[1].doc.page_content # call.docs[2].doc.page_content

-----------------------------------------------------------------------------
\* C16: a submission of a blank query dispatches to no executor and leaves
\* query_count as it is; every submission of a non-blank query adds exactly 1
\* to query_count; and when its routing call returned, the query is
\* dispatched to exactly one executor: the discrete-math executor when the
\* parsed route is "discrete_math", the calculus executor in every other case.
C16_DispatchTotal ==
    [][/\ (flow'.outcome = "blank") =>
             (query_count' = query_count /\ flow'.executor = "none")
       /\ (query_count' # query_count) => (query_count' = query_count + 1)
       /\ (flow' # flow /\ flow'.outcome \notin {"none", "blank"}) =>
             (query_count' = query_count + 1)
       /\ (query_count' = query_count + 1 /\ flow'.outcome # "stopped") =>
             /\ flow'.executor \in {"discrete_math", "calculus"}
             /\ (flow'.executor = "discrete_math")
                    <=> (flow'.route = PyStr(<<"discrete_math">>))]_vars

-----------------------------------------------------------------------------
\* C17: for each answered query the quality assessment runs exactly when a
\* manual trigger is pending, or no reflection has ever run, or at least
\* reflection_interval_days whole days have passed since the last one; when
\* it runs, last_reflection_date becomes the current time, and in every
\* other step last_reflection_date is unchanged.
C17_ReflectionSchedule ==
    [][/\ AnsweredStep =>
             /\ flow'.reflected <=> Due
             /\ flow'.reflected => (last_reflection_date' = At(now))
       /\ ~(AnsweredStep /\ flow'.reflected) =>
             (last_reflection_date' = last_reflection_date)]_vars

-----------------------------------------------------------------------------
\* C18: the manual trigger sets a pending flag and nothing else: pressing it
\* runs no reflection and leaves last_reflection_date, query_count and the
\* handler's trace as they were.  The flag is consumed only by the
\* should_run_reflection call of an answered query: that query reflects, on
\* the manual branch, and leaves the flag cleared, so a reflection is forced
\* only while a trigger is pending and each trigger forces at most one.
C18_ManualTrigger ==
    [][/\ (AnsweredStep /\ force_reflection) =>
             /\ flow'.reflected
             /\ flow'.branch = "manual"
             /\ ~force_reflection'
       /\ (AnsweredStep /\ flow'.branch = "manual") => force_reflection
       /\ (AnsweredStep /\ ~force_reflection) => ~force_reflection'
       /\ (force_reflection /\ ~force_reflection') => AnsweredStep
       /\ (~force_reflection /\ force_reflection') =>
             /\ flow' = flow
             /\ last_reflection_date' = last_reflection_date
             /\ query_count' = query_count]_vars

\* the second answered query of a session, which reflected because of the
\* manual trigger and cleared it
C18_Witness ==
    /\ query_count = 2
    /\ flow.assessment
    /\ flow.branch = "manual"
    /\ flow.reflected
    /\ flow.outcome = "done"
    /\ ~force_reflection
    /\ last_reflection_date = At(now)

-----------------------------------------------------------------------------
\* C19: whatever the state of the index, a tool call made for a dispatched
\* query returns text, and no executor raises to the handler: a dispatched
\* query always gets an answer text and reaches the quality assessment step;
\* when the kickoff raised, the answer text is that of an error result and
\* carries the fault's message, otherwise it is the generated answer.
C19_AnsweringNeverBlocked ==
    /\ flow.tool \in {"none", "text"}
    /\ flow.outcome # "executor_raised"
    /\ (flow.executor # "none") =>
          /\ flow.assessment
          /\ flow.answer_text # <<>>
          /\ (flow.fault # <<>>) =>
                /\ Head(flow.answer_text) = ErrorPrefix
                /\ ContainsSeq(flow.answer_text, flow.fault)
          /\ (flow.fault = <<>>) => flow.answer_text \in AnswerTexts

\* on an index that was never built, the discrete-math agent got text from
\* its tool, the kickoff raised, and the handler went on to the assessment
\* with the error result's text
C19_Witness ==
    /\ ~db_initialized
    /\ vector_store = None
    /\ flow.executor = "discrete_math"
    /\ flow.tool = "text"
    /\ flow.fault # <<>>
    /\ ContainsSeq(flow.answer_text, flow.fault)
    /\ flow.assessment

====
